---- MODULE Spec2Model ----
(***************************************************************************)
(* Tic-Tac-Toe: the Board object (board.py), its symmetry transforms, the  *)
(* permutation search (full_tree_search.py), the game tree with its        *)
(* depth-first iterator (game_tree.py), and the turn loop of Game          *)
(* (game.py) with the move algorithms of its players (algorithms.py).      *)
(*                                                                         *)
(* Python lists are objects: a Board holds a list of row objects, and two  *)
(* boards may hold the same row object.  The model therefore keeps a heap  *)
(* of row objects and lets every board refer to its rows by heap address.  *)
(* Positions are the 0-indexed (row, col) tuples of the source; sequences  *)
(* are 1-indexed, so a grid access adds one.                               *)
(***************************************************************************)
EXTENDS Integers, Sequences, FiniteSets, TLC

VARIABLES
    num_rows,           \* the size the boards of this run are created with
    heap,               \* row objects: address -> list of cell values
    boards,             \* the Board objects created so far, by identity
    origin,             \* how each board was made: the call and its source
    last,               \* the last call made and what it returned or raised
    tokens,             \* full_tree_search: the token list of the closure
    move_permutations,  \* full_tree_search: list(permutations(moveset))
    winners,            \* full_tree_search: permutation -> outcome
    root,               \* game_tree: the Node the tree was started from
    node,               \* game_tree: the Node in hand (NodeIterator.node)
    visited_nodes,      \* game_tree: NodeIterator.visited_nodes
    nodes_made,         \* game_tree: the number of Node objects constructed
    game                \* game: the Game object and where play_game stands

vars == <<game, num_rows, heap, boards, origin, last, tokens, move_permutations, winners,
          root, node, visited_nodes, nodes_made>>

\* ------------------------------------------------------------------------
\* Bounds and program constants
\* ------------------------------------------------------------------------
DefaultRows == 3        \* Board.__init__'s default num_rows / num_cols
BoardSizes == {2, DefaultRows}
PairSizes == {2}             \* sizes explored with several boards alive
MaxMoves == 3           \* moves explored on the single board of SpecPlay
MaxPlays == 3           \* moves explored on the boards of Spec, all together
MaxIsoPlays == 4        \* moves on the two boards compared by isomorphic_to
MaxSearchCells == 3     \* empty cells a permutation table is built over
MaxTryCells == 2        \* empty cells of the table whose lines of play are tried
MaxAnyMoves == 2        \* moves explored with coordinates of any sign and size
MaxOpeningCells == 4    \* cells the opening moves of a 3x3 game are drawn from
MaxTreeCells == 4       \* empty cells of the 3x3 boards a game tree starts from
MaxGameCells == 2       \* empty cells of the 3x3 boards a game starts from
MaxRounds == 3          \* the round from which no human player skips a turn

empty == " "
None == "None"
Draw == "Draw"
Tokens == {"O", "X"}
TokenLists == {<<"O", "X">>, <<"O", "X", "Y">>}
TreeTokenLists == TokenLists \cup {<<"O">>}

\* ------------------------------------------------------------------------
\* Python list helpers
\* ------------------------------------------------------------------------
\* s[::-1]
Reverse(s) == [i \in 1..Len(s) |-> s[Len(s) + 1 - i]]

\* x in s
InList(x, s) == \E i \in 1..Len(s) : s[i] = x

\* a remove that drops the last element whatever x is
RemoveLast(s, x) == SubSeq(s, 1, Len(s) - 1)

\* s.remove(x): drops the first occurrence (the caller checks x in s)
Remove(s, x) ==
    LET k == CHOOSE i \in 1..Len(s) : s[i] = x /\ \A j \in 1..(i - 1) : s[j] # x
    IN  [i \in 1..(Len(s) - 1) |-> IF i < k THEN s[i] ELSE s[i + 1]]

\* s[i] for a Python index i on a list of length n: the 1-based index, or 0
\* when Python raises IndexError.  Negative indices count from the end.
PyIndex(i, n) ==
    IF i >= 0 /\ i < n THEN i + 1
    ELSE IF i < 0 /\ i >= 0 - n THEN n + i + 1
    ELSE 0

\* [(i, j) for i in range(n) for j in range(n)]
AllCells(n) == [k \in 1..(n * n) |-> <<(k - 1) \div n, (k - 1) % n>>]

\* ------------------------------------------------------------------------
\* The object store: st = [heap |-> row objects, boards |-> Board objects]
\* ------------------------------------------------------------------------
\* the value v, computed once, used as x in F(x): a local variable
Let(v, F(_)) == CHOOSE y \in {F(x) : x \in {v}} : TRUE

\* the object store before any Board is created
EmptyStore == [heap |-> <<>>, boards |-> <<>>]

\* allocate one fresh list object per element of content
Alloc(hp, content) ==
    [heap |-> hp \o content,
     ids  |-> [i \in 1..Len(content) |-> Len(hp) + i]]

\* Board.__init__
Board(st, nr, nc) ==
    Let(Alloc(st.heap, [j \in 1..nr |-> [i \in 1..nc |-> empty]]), LAMBDA a :
    [st  |-> [heap |-> a.heap,
                  boards |-> Append(st.boards,
                      [num_rows |-> nr, num_cols |-> nc,
                       board |-> a.ids,
                       played_positions |-> <<>>,
                       played_tokens |-> <<>>,
                       empty_cells |-> AllCells(nr)])],
         ret |-> Len(st.boards) + 1])

\* what is left of the store `after` once the objects created since
\* `before` are unreferenced: the objects `before` held, as they are now
Kept(after, before) ==
    [heap |-> SubSeq(after.heap, 1, Len(before.heap)),
     boards |-> SubSeq(after.boards, 1, Len(before.boards))]

\* Board.rows: the list of row objects, seen through the heap
rows(st, b) == [i \in 1..Len(st.boards[b].board) |-> st.heap[st.boards[b].board[i]]]

\* Board.columns: new lists, one per column
columns(st, b) ==
    [col \in 1..st.boards[b].num_cols |->
        [row \in 1..st.boards[b].num_rows |-> st.heap[st.boards[b].board[row]][col]]]

\* Board.main_diagonal
main_diagonal(st, b) ==
    [i \in 1..st.boards[b].num_rows |-> st.heap[st.boards[b].board[i]][i]]

\* Board.anti_diagonal
anti_diagonal(st, b) ==
    [i \in 1..st.boards[b].num_rows |->
        st.heap[st.boards[b].board[i]][st.boards[b].num_cols - i + 1]]

\* a guard that looks at the last move only
AlreadyPlayedLast(self, row, col) ==
    /\ self.played_positions # <<>>
    /\ self.played_positions[Len(self.played_positions)] = <<row, col>>

\* Board.play's check: (row, col) in self.played_positions
AlreadyPlayed(self, row, col) == InList(<<row, col>>, self.played_positions)

\* Board.play: returns the new store and "ok" or the exception raised.
\* The grid assignment raises IndexError before anything is written; the
\* final empty_cells.remove raises ValueError after the grid and both
\* histories have been written.
play(st, b, row, col, token) ==
    LET self == st.boards[b]
        r == PyIndex(row, Len(self.board))
        c == IF r = 0 THEN 0 ELSE PyIndex(col, Len(st.heap[self.board[r]]))
    IN  IF AlreadyPlayed(self, row, col)
        THEN [st |-> st, status |-> "IndexError"]
        ELSE IF r = 0 \/ c = 0
        THEN [st |-> st, status |-> "IndexError"]
        ELSE
            LET heap1 == [st.heap EXCEPT ![self.board[r]][c] = token]
                self1 == [self EXCEPT !.played_positions = Append(@, <<row, col>>),
                                      !.played_tokens = Append(@, token)]
            IN  IF InList(<<row, col>>, self.empty_cells)
                THEN [st |-> [heap |-> heap1,
                              boards |-> [st.boards EXCEPT ![b] =
                                  [self1 EXCEPT !.empty_cells = Remove(@, <<row, col>>)]]],
                      status |-> "ok"]
                ELSE [st |-> [heap |-> heap1,
                              boards |-> [st.boards EXCEPT ![b] = self1]],
                      status |-> "ValueError"]

\* the first of the lines from the k-th on whose cells all hold the same
\* token, or None.  `is not self.empty` compares identities; CPython keeps
\* one object per one-character string, so for the tokens of this program
\* it is the comparison of values.
RECURSIVE first_winner(_, _)
first_winner(lines, k) ==
    IF k > Len(lines) THEN None
    ELSE IF (\A i \in 1..Len(lines[k]) : lines[k][1] = lines[k][i])
            /\ lines[k][1] # empty
         THEN lines[k][1]
         ELSE first_winner(lines, k + 1)

\* the result of winner() given what the four checks found
first_found(inRows, inCols, inMain, inAnti) ==
    IF inRows # None THEN inRows
    ELSE IF inCols # None THEN inCols
    ELSE IF inMain # None THEN inMain
    ELSE inAnti

\* a winner that scans the rows bottom to top and the columns right to left
winner_reversed(st, b) ==
    Let(Reverse(rows(st, b)), LAMBDA rs :
    Let(Reverse(columns(st, b)), LAMBDA cs :
    Let(<<main_diagonal(st, b)>>, LAMBDA md :
    Let(<<anti_diagonal(st, b)>>, LAMBDA ad :
    first_found(first_winner(rs, 1), first_winner(cs, 1),
                    first_winner(md, 1), first_winner(ad, 1))))))

\* Board.winner: the rows top to bottom, then the columns left to right,
\* then the main diagonal, then the anti-diagonal
winner(st, b) ==
    Let(rows(st, b), LAMBDA rs :
    Let(columns(st, b), LAMBDA cs :
    Let(<<main_diagonal(st, b)>>, LAMBDA md :
    Let(<<anti_diagonal(st, b)>>, LAMBDA ad :
    first_found(first_winner(rs, 1), first_winner(cs, 1),
                    first_winner(md, 1), first_winner(ad, 1))))))

\* Board.full
full(st, b) == st.boards[b].empty_cells = <<>>

\* a copy whose board attribute is self's own list of rows
ShallowCopy(st, b) ==
    [st  |-> [st EXCEPT !.boards = Append(@, st.boards[b])],
     ret |-> Len(st.boards) + 1]

\* Board.copy: a new Board whose rows and lists are copies
copy(st, b) ==
    Let(Board(st, st.boards[b].num_rows, st.boards[b].num_cols), LAMBDA made :
    Let(Alloc(made.st.heap, rows(st, b)), LAMBDA a :
    [st  |-> [heap |-> a.heap,
                  boards |-> [made.st.boards EXCEPT ![made.ret] =
                      [@ EXCEPT !.board = a.ids,
                                !.played_positions = st.boards[b].played_positions,
                                !.played_tokens = st.boards[b].played_tokens,
                                !.empty_cells = st.boards[b].empty_cells]]],
         ret |-> made.ret]))

\* an equality that compares the move history as well as the grid
BoardEqHistory(st, a, b) ==
    /\ rows(st, a) = rows(st, b)
    /\ st.boards[a].played_positions = st.boards[b].played_positions

\* Board.__eq__: the grids only
BoardEq(st, a, b) == rows(st, a) = rows(st, b)

\* BoardIterator: the cells of the board in row-major order, each with the
\* row_id and col_id the iterator reports for it
BoardIterator(array) ==
    IF array = <<>> THEN <<>>
    ELSE [k \in 1..(Len(array) * Len(array[1])) |->
             [row_id |-> (k - 1) \div Len(array[1]),
              col_id |-> (k - 1) % Len(array[1]),
              cell |-> array[((k - 1) \div Len(array[1])) + 1][((k - 1) % Len(array[1])) + 1]]]

\* the (row_id, col_id) of each item of a list of iterator items
PositionsOf(items) == [k \in 1..Len(items) |-> <<items[k].row_id, items[k].col_id>>]

\* Board.recitfy_game_history: the three lists rebuilt from the grid, the
\* cells taken in the iterator's order
recitfy_game_history(st, b) ==
    Let(BoardIterator(rows(st, b)), LAMBDA board_iter :
    Let(SelectSeq(board_iter, LAMBDA it : it.cell = empty), LAMBDA free :
    Let(SelectSeq(board_iter, LAMBDA it : it.cell # empty), LAMBDA taken :
    [st EXCEPT !.boards[b] =
            [@ EXCEPT !.empty_cells = PositionsOf(free),
                      !.played_positions = PositionsOf(taken),
                      !.played_tokens = [k \in 1..Len(taken) |-> taken[k].cell]]])))

\* a rotation whose 90 degree case leaves the last column unreversed
rotated_skips_last(rs, cs, degrees) ==
    IF degrees = 90
    THEN [i \in 1..Len(cs) |-> IF i < Len(cs) THEN Reverse(cs[i]) ELSE cs[i]]
    ELSE IF degrees = 180 THEN [i \in 1..Len(rs) |-> Reverse(rs[Len(rs) + 1 - i])]
    ELSE Reverse(cs)

\* the board attribute rotate gives the new board
rotated(rs, cs, degrees) ==
    IF degrees = 90 THEN [i \in 1..Len(cs) |-> Reverse(cs[i])]
    ELSE IF degrees = 180 THEN [i \in 1..Len(rs) |-> Reverse(rs[Len(rs) + 1 - i])]
    ELSE Reverse(cs)

\* Board.rotate: a new Board(); its board attribute replaced by new lists;
\* its lists rebuilt
rotate(st, b, degrees) ==
    Let(Board(st, st.boards[b].num_rows, st.boards[b].num_cols), LAMBDA made :
    Let(rows(st, b), LAMBDA rs :
    Let(columns(st, b), LAMBDA cs :
    Let(Alloc(made.st.heap, rotated(rs, cs, degrees)), LAMBDA a :
    Let([heap |-> a.heap,
         boards |-> [made.st.boards EXCEPT ![made.ret].board = a.ids]], LAMBDA st1 :
    [st |-> recitfy_game_history(st1, made.ret), ret |-> made.ret])))))

\* the board attribute reflect gives the new board for the axes that build
\* new lists
reflected(rs, cs, axis) ==
    IF axis = "v" THEN [i \in 1..Len(rs) |-> Reverse(rs[i])]
    ELSE IF axis = "md" THEN [i \in 1..Len(cs) |-> Reverse(cs[Len(cs) + 1 - i])]
    ELSE cs

\* Board.reflect: a copy of self; its board attribute replaced; its lists
\* rebuilt.  For the horizontal axis the new list holds self's own row
\* objects, in reverse order; the other three axes build new lists.
reflect(st, b, axis) ==
    Let(copy(st, b), LAMBDA made :
    Let(rows(st, b), LAMBDA rs :
    Let(columns(st, b), LAMBDA cs :
    Let(Alloc(made.st.heap, reflected(rs, cs, axis)), LAMBDA a :
    Let(IF axis = "h"
        THEN [made.st EXCEPT !.boards[made.ret].board = Reverse(st.boards[b].board)]
        ELSE [heap |-> a.heap,
              boards |-> [made.st.boards EXCEPT ![made.ret].board = a.ids]], LAMBDA st1 :
    [st |-> recitfy_game_history(st1, made.ret), ret |-> made.ret])))))

\* Python frees a list no board refers to: the live row objects keep their
\* order and are renumbered from 1
Collect(st) ==
    LET live(i) == \E b \in 1..Len(st.boards) :
                       \E k \in 1..Len(st.boards[b].board) : st.boards[b].board[k] = i
        newId(i) == Cardinality({j \in 1..i : live(j)})
    IN  [heap |-> [k \in 1..newId(Len(st.heap)) |->
                      st.heap[CHOOSE i \in 1..Len(st.heap) : live(i) /\ newId(i) = k]],
         boards |-> [b \in 1..Len(st.boards) |->
                      [st.boards[b] EXCEPT !.board =
                          [k \in 1..Len(st.boards[b].board) |-> newId(st.boards[b].board[k])]]]]

\* the transforms isomorphisms builds, in its order
Transforms == <<"90", "180", "270", "h", "v", "md", "ad">>

\* one of them, by name
transform(st, b, name) ==
    IF name = "90" THEN rotate(st, b, 90)
    ELSE IF name = "180" THEN rotate(st, b, 180)
    ELSE IF name = "270" THEN rotate(st, b, 270)
    ELSE reflect(st, b, name)

\* the store after the transforms from the k-th on, and the boards made
RECURSIVE transformed(_, _, _, _)
transformed(st, b, k, made) ==
    IF k > Len(Transforms) THEN [st |-> st, ret |-> made]
    ELSE Let(transform(st, b, Transforms[k]), LAMBDA t :
    transformed(t.st, b, k + 1, Append(made, t.ret)))

\* board in list, for a list of boards: identity or __eq__
BoardIn(st, x, list) == \E k \in 1..Len(list) : x = list[k] \/ BoardEq(st, x, list[k])

\* Board.isomorphisms: the three rotations and the four reflections are
\* built, then the rotations equal to self are dropped and the reflections
\* equal to a kept rotation are dropped.  Returns the store holding the new
\* boards and the list of the boards kept.
isomorphisms(st, b) ==
    Let(transformed(st, b, 1, <<>>), LAMBDA all :
    Let(<<b>> \o SelectSeq(SubSeq(all.ret, 1, 3),
                           LAMBDA x : ~BoardEq(all.st, x, b)), LAMBDA rotations :
    Let(SelectSeq(SubSeq(all.ret, 4, 7),
                  LAMBDA x : ~BoardIn(all.st, x, rotations)), LAMBDA reflections :
    [st |-> all.st, ret |-> rotations \o reflections])))

\* Board.isomorphic_to: self in other.isomorphisms
isomorphic_to(st, self, other) ==
    Let(isomorphisms(st, other), LAMBDA iso :
    BoardIn(iso.st, self, iso.ret))

\* ------------------------------------------------------------------------
\* Calls and their results
\* ------------------------------------------------------------------------
\* the record of a call: what was called on which board with which
\* arguments, and what came back
NoCall == [op |-> "none", self |-> 0, other |-> 0, row |-> 0, col |-> 0,
           token |-> None, arg |-> "", status |-> "ok",
           retBoard |-> 0, retToken |-> None, retPos |-> <<>>, retGrids |-> <<>>,
           retBool |-> FALSE,
           asked |-> [id |-> 0], retNone |-> FALSE, retNodes |-> <<>>]

\* the store the variables hold
Store == [heap |-> heap, boards |-> boards]

\* no permutation search has been built
NoSearch ==
    /\ tokens = <<>>
    /\ move_permutations = <<>>
    /\ winners = <<>>

\* the absence of a Node (None where the source holds a Node or None)
NoNode == [id |-> 0]

\* no game tree has been started
NoTree ==
    /\ root = NoNode
    /\ node = NoNode
    /\ visited_nodes = <<>>
    /\ nodes_made = 0

\* no Game has been constructed
NoGame == game = [pc |-> "none"]

\* the total number of moves recorded on the boards bs
PlayedIn(bs) ==
    LET RECURSIVE Sum(_)
        Sum(k) == IF k = 0 THEN 0
                  ELSE Len(bs[k].played_positions) + Sum(k - 1)
    IN  Sum(Len(bs))

\* ------------------------------------------------------------------------
\* One board: Board.play on a fresh board (SpecPlay)
\* ------------------------------------------------------------------------
\* b.play(row, col, token), explored while the boards hold at most cap moves
Play(b, row, col, token, cap) ==
    /\ \E res \in {play(Store, b, row, col, token)} :
           /\ PlayedIn(res.st.boards) <= cap
           /\ heap' = res.st.heap
           /\ boards' = res.st.boards
           /\ last' = [NoCall EXCEPT !.op = "play", !.self = b,
                                     !.status = res.status]
    /\ UNCHANGED <<game, num_rows, origin, tokens, move_permutations, winners,
                 root, node, visited_nodes, nodes_made>>

\* the store after Board(n, n) and nothing else
FreshBoard(n) ==
    \E res \in {Board(EmptyStore, n, n)} :
        /\ heap = res.st.heap
        /\ boards = res.st.boards
        /\ origin = <<[op |-> "Board", arg |-> "", source |-> 0]>>
        /\ last = NoCall
        /\ NoSearch
        /\ NoTree
        /\ NoGame

InitPlay ==
    /\ num_rows \in BoardSizes
    /\ FreshBoard(num_rows)

\* a play on the one board
PlayOnFresh ==
    \E row \in 0..(num_rows - 1), col \in 0..(num_rows - 1), token \in Tokens :
        Play(1, row, col, token, MaxMoves)

NextPlay == PlayOnFresh

SpecPlay == InitPlay /\ [][NextPlay]_vars

\* the grid of board b, as the list of its rows
Grid(b) == rows(Store, b)

\* the positions of board b of size n, as a set
Positions(n) == {<<r, c>> : r \in 0..(n - 1), c \in 0..(n - 1)}

\* how often x occurs in the list s
Count(x, s) == Cardinality({i \in 1..Len(s) : s[i] = x})

\* C1: after any sequence of play calls with in-range coordinates on a fresh
\* board, rejected calls included, played_positions and empty_cells are
\* disjoint and hold every coordinate exactly once between them, their
\* lengths add up to the number of cells, played_positions and played_tokens
\* have the same length, and a cell is empty iff its coordinate is in
\* empty_cells.
C1_HistoryPartitionsBoard ==
    LET self == boards[1]
    IN  /\ \A p \in Positions(num_rows) :
               /\ Count(p, self.played_positions) + Count(p, self.empty_cells) = 1
               /\ (Grid(1)[p[1] + 1][p[2] + 1] = empty) <=> InList(p, self.empty_cells)
        /\ \A i \in 1..Len(self.played_positions) :
               ~InList(self.played_positions[i], self.empty_cells)
        /\ Len(self.played_positions) + Len(self.empty_cells) = num_rows * num_rows
        /\ Len(self.played_positions) = Len(self.played_tokens)

\* C1 witness: a call was rejected on a board that holds two moves
C1_Witness ==
    /\ last.op = "play" /\ last.status = "IndexError"
    /\ Len(boards[1].played_positions) = 2

\* ------------------------------------------------------------------------
\* A board and a board derived from it: copy, rotate, reflect (Spec)
\* ------------------------------------------------------------------------
\* the call made a new board: keep it, free what nothing refers to
Keep(res, op, arg, source) ==
    \E kept \in {[res.st EXCEPT !.boards = SubSeq(@, 1, Len(boards))
                                               \o <<res.st.boards[res.ret]>>]} :
    \E st \in {Collect(kept)} :
        /\ PlayedIn(st.boards) <= MaxPlays
        /\ heap' = st.heap
        /\ boards' = st.boards
        /\ origin' = Append(origin, [op |-> op, arg |-> arg, source |-> source])
        /\ last' = [NoCall EXCEPT !.op = op, !.self = source, !.arg = arg,
                                  !.retBoard = Len(boards) + 1]
        /\ UNCHANGED <<game, num_rows, tokens, move_permutations, winners,
                 root, node, visited_nodes, nodes_made>>

\* b.copy()
Copy(b) ==
    /\ Len(boards) = 1
    /\ \E res \in {copy(Store, b)} : Keep(res, "copy", "", b)

\* b.rotate(degrees)
Rotate(b, degrees) ==
    /\ Len(boards) = 1
    /\ \E res \in {rotate(Store, b, degrees)} :
           Keep(res, "rotate",
                IF degrees = 90 THEN "90" ELSE IF degrees = 180 THEN "180" ELSE "270", b)

\* b.reflect(axis)
Reflect(b, axis) ==
    /\ Len(boards) = 1
    /\ \E res \in {reflect(Store, b, axis)} : Keep(res, "reflect", axis, b)

Degrees == {90, 180, 270}
Axes == {"h", "v", "md", "ad"}

Init ==
    /\ num_rows \in PairSizes
    /\ FreshBoard(num_rows)

\* a play on the source or on the derived board
PlayOnAny ==
    \E b \in 1..Len(boards), row \in 0..(num_rows - 1),
       col \in 0..(num_rows - 1), token \in Tokens :
        Play(b, row, col, token, MaxPlays)

CopyAny == \E b \in 1..Len(boards) : Copy(b)

RotateAny == \E b \in 1..Len(boards), degrees \in Degrees : Rotate(b, degrees)

ReflectAny == \E b \in 1..Len(boards), axis \in Axes : Reflect(b, axis)

Next == PlayOnAny \/ CopyAny \/ RotateAny \/ ReflectAny

Spec == Init /\ [][Next]_vars

\* what a caller can see of board b: its grid and its three lists
ViewIn(st, b) ==
    [board |-> rows(st, b),
     played_positions |-> st.boards[b].played_positions,
     played_tokens |-> st.boards[b].played_tokens,
     empty_cells |-> st.boards[b].empty_cells]

View(b) == ViewIn(Store, b)

\* C2: on every board, play on a cell that has already been played fails
\* for every token, and leaves the grid and the three lists of every board
\* as they were.
C2_PlayedCellRejected ==
    \A b \in 1..Len(boards) : \A p \in Positions(num_rows) :
        (\E i \in 1..Len(boards[b].played_positions) :
             boards[b].played_positions[i] = p)
        => \A token \in Tokens :
               \E res \in {play(Store, b, p[1], p[2], token)} :
                   /\ res.status = "IndexError"
                   /\ res.st = Store

\* C2 witness: a call was rejected on a rotated board holding two moves
C2_Witness ==
    /\ Len(boards) = 2 /\ origin[2].op = "rotate"
    /\ last.op = "play" /\ last.self = 2 /\ last.status = "IndexError"
    /\ Len(boards[2].played_positions) = 2
    /\ Len(boards[1].played_positions) = 1

\* board b was returned by a.rotate or a.reflect
TransformOf(b, a) ==
    /\ b \in 1..Len(origin)
    /\ origin[b].source = a
    /\ origin[b].op \in {"rotate", "reflect"}

\* C4: a board returned by rotate or reflect shares no mutable state with
\* its source: a play on either leaves the grid and the lists of the other
\* unchanged.
C4_TransformSharesNothing ==
    [][ last'.op = "play" =>
          \A b \in 1..Len(boards) :
              (b # last'.self /\ (TransformOf(b, last'.self) \/ TransformOf(last'.self, b)))
              => ViewIn(Store', b) = ViewIn(Store, b) ]_vars

\* board b was returned by a.copy()
CopyOf(b, a) ==
    /\ b \in 1..Len(origin)
    /\ origin[b].source = a
    /\ origin[b].op = "copy"

\* C5: copy returns a board with the same grid and lists as the original,
\* and afterwards a play on the copy leaves the original unchanged and a
\* play on the original leaves the copy unchanged.
C5_CopyIsIndependent ==
    [][ /\ last'.op = "copy" =>
              /\ ViewIn(Store', last'.retBoard) = ViewIn(Store, last'.self)
              /\ ViewIn(Store', last'.self) = ViewIn(Store, last'.self)
        /\ last'.op = "play" =>
              \A b \in 1..Len(boards) :
                  (b # last'.self /\ (CopyOf(b, last'.self) \/ CopyOf(last'.self, b)))
                  => ViewIn(Store', b) = ViewIn(Store, b) ]_vars

\* C5 witness: the copy of a board holding a move has been played on, and
\* differs from the original
C5_Witness ==
    /\ Len(boards) = 2 /\ origin[2].op = "copy"
    /\ last.op = "play" /\ last.self = 2 /\ last.status = "ok"
    /\ Len(boards[1].played_positions) = 1
    /\ Len(boards[2].played_positions) = 2
    /\ Grid(1) # Grid(2)

\* ------------------------------------------------------------------------
\* The functions of one grid: winner, isomorphisms, round trips (SpecGrid)
\* ------------------------------------------------------------------------
\* every grid of size n over the empty marker and the tokens
Grids(n) == [1..n -> [1..n -> {empty} \cup Tokens]]

\* a board of size n whose grid is g, its lists as the grid implies
BoardWithGrid(n, g) ==
    Let(Board(EmptyStore, n, n), LAMBDA made :
    recitfy_game_history([made.st EXCEPT !.heap = g], made.ret))

InitGrid ==
    /\ num_rows \in BoardSizes
    /\ \E g \in Grids(num_rows) : \E st \in {BoardWithGrid(num_rows, g)} :
           heap = st.heap /\ boards = st.boards
    /\ origin = <<[op |-> "Board", arg |-> "", source |-> 0]>>
    /\ last = NoCall
    /\ NoSearch
    /\ NoTree
    /\ NoGame

\* board.winner()
WinnerCall ==
    /\ last = NoCall
    /\ last' = [NoCall EXCEPT !.op = "winner", !.self = 1,
                              !.retToken = winner(Store, 1)]
    /\ UNCHANGED <<game, num_rows, heap, boards, origin, tokens, move_permutations, winners,
                 root, node, visited_nodes, nodes_made>>

\* board.isomorphisms: the grids of the boards of the list, in order
IsomorphismsCall ==
    /\ last = NoCall
    /\ \E iso \in {isomorphisms(Store, 1)} :
       \E left \in {Kept(iso.st, Store)} :
           /\ heap' = left.heap
           /\ boards' = left.boards
           /\ last' = [NoCall EXCEPT !.op = "isomorphisms", !.self = 1,
                       !.retGrids = [k \in 1..Len(iso.ret) |-> rows(iso.st, iso.ret[k])]]
    /\ UNCHANGED <<game, num_rows, origin, tokens, move_permutations, winners,
                   root, node, visited_nodes, nodes_made>>

\* board.rotate(90).rotate(90).rotate(90).rotate(90): the four grids
RotateFour ==
    /\ last = NoCall
    /\ \E r1 \in {rotate(Store, 1, 90)} : \E r2 \in {rotate(r1.st, r1.ret, 90)} :
       \E r3 \in {rotate(r2.st, r2.ret, 90)} : \E r4 \in {rotate(r3.st, r3.ret, 90)} :
           last' = [NoCall EXCEPT !.op = "rotate4", !.self = 1,
                       !.retGrids = <<rows(r1.st, r1.ret), rows(r2.st, r2.ret),
                                      rows(r3.st, r3.ret), rows(r4.st, r4.ret)>>]
    /\ UNCHANGED <<game, num_rows, heap, boards, origin, tokens, move_permutations, winners,
                 root, node, visited_nodes, nodes_made>>

\* board.reflect(axis).reflect(axis): the two grids
ReflectTwice ==
    /\ last = NoCall
    /\ \E axis \in Axes :
       \E f1 \in {reflect(Store, 1, axis)} : \E f2 \in {reflect(f1.st, f1.ret, axis)} :
           last' = [NoCall EXCEPT !.op = "reflect2", !.self = 1, !.arg = axis,
                       !.retGrids = <<rows(f1.st, f1.ret), rows(f2.st, f2.ret)>>]
    /\ UNCHANGED <<game, num_rows, heap, boards, origin, tokens, move_permutations, winners,
                 root, node, visited_nodes, nodes_made>>

NextGrid == WinnerCall \/ IsomorphismsCall \/ RotateFour \/ ReflectTwice

SpecGrid == InitGrid /\ [][NextGrid]_vars

\* the lines of a board of size n in the order rows top to bottom, columns
\* left to right, main diagonal, anti-diagonal; each line a list of cells
Lines(n) ==
    [k \in 1..(2 * n + 2) |->
        IF k <= n THEN [i \in 1..n |-> <<k, i>>]
        ELSE IF k <= 2 * n THEN [i \in 1..n |-> <<i, k - n>>]
        ELSE IF k = 2 * n + 1 THEN [i \in 1..n |-> <<i, i>>]
        ELSE [i \in 1..n |-> <<i, n + 1 - i>>]]

\* line k of grid g holds one token in all its cells
Uniform(g, k) ==
    LET line == Lines(Len(g))[k]
    IN  /\ g[line[1][1]][line[1][2]] # empty
        /\ \A i \in 1..Len(line) : g[line[i][1]][line[i][2]] = g[line[1][1]][line[1][2]]

\* C3: winner() returns the token of the first uniformly filled line in the
\* order rows, columns, main diagonal, anti-diagonal, and none iff no line
\* is uniformly filled; for every grid, legal or not.
C3_WinnerIsFirstUniformLine ==
    last.op = "winner" =>
        LET g == Grid(1)
            n == Len(g)
            won == {k \in 1..(2 * n + 2) : Uniform(g, k)}
        IN  /\ (last.retToken = None) <=> (won = {})
            /\ won # {} =>
                   LET k == CHOOSE k \in won : \A j \in won : k <= j
                       cell == Lines(n)[k][1]
                   IN  last.retToken = g[cell[1]][cell[2]]

\* C3 witness: winner() was called on a grid with filled lines of two
\* different tokens
C3_Witness ==
    /\ last.op = "winner" /\ last.retToken # None
    /\ \E j, k \in 1..(2 * num_rows + 2) :
           /\ Uniform(Grid(1), j) /\ Uniform(Grid(1), k)
           /\ Grid(1)[Lines(num_rows)[j][1][1]][Lines(num_rows)[j][1][2]]
                  # Grid(1)[Lines(num_rows)[k][1][1]][Lines(num_rows)[k][1][2]]

\* C6: the list B.isomorphisms holds no two boards with equal grids.
C6_IsomorphismsAreDistinct ==
    last.op = "isomorphisms" =>
        \A j, k \in 1..Len(last.retGrids) :
            j # k => last.retGrids[j] # last.retGrids[k]

\* C8: four rotations by 90 degrees give back the grid, and so do two
\* reflections in the same axis, for each of the four axes.
C8_RoundTrips ==
    /\ last.op = "rotate4" => last.retGrids[4] = Grid(1)
    /\ last.op = "reflect2" => last.retGrids[2] = Grid(1)

\* C8 witness: the four rotations of a grid without symmetry, all different
C8_Witness ==
    /\ last.op = "rotate4"
    /\ Cardinality({last.retGrids[k] : k \in 1..4}) = 4
    /\ num_rows = DefaultRows

\* ------------------------------------------------------------------------
\* Two boards of one size and isomorphic_to between them (SpecIso)
\* ------------------------------------------------------------------------
\* two boards of size n whose grids are g1 and g2, their lists as the grids
\* imply (the moves played in row-major order)
TwoBoardsWithGrids(n, g1, g2) ==
    Let(Board(BoardWithGrid(n, g1), n, n), LAMBDA made :
    recitfy_game_history([made.st EXCEPT !.heap = g1 \o g2], made.ret))

InitIso ==
    /\ num_rows \in PairSizes
    /\ \E first \in {Board(EmptyStore, num_rows, num_rows)} :
       \E second \in {Board(first.st, num_rows, num_rows)} :
           heap = second.st.heap /\ boards = second.st.boards
    /\ origin = <<[op |-> "Board", arg |-> "", source |-> 0],
                  [op |-> "Board", arg |-> "", source |-> 0]>>
    /\ last = NoCall
    /\ NoSearch
    /\ NoTree
    /\ NoGame

\* a play of a token on an empty cell of one of the two boards
PlayOnEither ==
    /\ \E b \in 1..Len(boards), token \in Tokens :
       \E k \in 1..Len(boards[b].empty_cells) :
       \E res \in {play(Store, b, boards[b].empty_cells[k][1],
                        boards[b].empty_cells[k][2], token)} :
           /\ PlayedIn(res.st.boards) <= MaxIsoPlays
           /\ heap' = res.st.heap
           /\ boards' = res.st.boards
           /\ last' = [NoCall EXCEPT !.op = "play", !.status = res.status]
    /\ UNCHANGED <<game, num_rows, origin, tokens, move_permutations, winners,
                 root, node, visited_nodes, nodes_made>>

\* boards[1].isomorphic_to(b), for b either board (the two boards are
\* interchangeable: each pair of histories is reached in both orders); the
\* boards other.isomorphisms makes are dropped when the call returns
IsomorphicTo ==
    /\ last.op # "isomorphic_to"
    /\ \E b \in 1..Len(boards) :
           last' = [NoCall EXCEPT !.op = "isomorphic_to", !.self = 1, !.other = b,
                                  !.retBool = isomorphic_to(Store, 1, b)]
    /\ UNCHANGED <<game, num_rows, heap, boards, origin, tokens, move_permutations, winners,
                 root, node, visited_nodes, nodes_made>>

NextIso == PlayOnEither \/ IsomorphicTo

SpecIso == InitIso /\ [][NextIso]_vars

\* C7: A.isomorphic_to(A) is true; A.isomorphic_to(B) is what
\* B.isomorphic_to(A) is; and the result is the one the call gives on two
\* boards with the same two grids whose moves were played in row-major
\* order, so it depends on the grids only.
C7_IsomorphicToIsReflexiveSymmetric ==
    last.op = "isomorphic_to" =>
        /\ last.self = last.other => last.retBool
        /\ last.retBool = isomorphic_to(Store, last.other, last.self)
        /\ \A rebuilt \in {TwoBoardsWithGrids(num_rows, Grid(last.self), Grid(last.other))} :
               last.retBool = isomorphic_to(rebuilt, 1, 2)

\* C7 witness: isomorphic_to returned true for two boards with different
\* grids, the moves of the first played in an order that is not row-major
C7_Witness ==
    /\ last.op = "isomorphic_to" /\ last.retBool
    /\ Grid(last.self) # Grid(last.other)
    /\ Len(boards[last.self].played_positions) = 2
    /\ boards[last.self].played_positions[1][1] > boards[last.self].played_positions[2][1]

\* ------------------------------------------------------------------------
\* full_tree_search: the table of outcomes and the closure get_move
\* ------------------------------------------------------------------------
WIN == 100
LOSS == -100
DRAW == 0

\* s without its i-th element
WithoutIndex(s, i) == SubSeq(s, 1, i - 1) \o SubSeq(s, i + 1, Len(s))

\* itertools.permutations(s), in its order: the permutations that start
\* with s[i], for i ascending
RECURSIVE permutations(_), permutations_from(_, _)
permutations_from(s, i) ==
    IF i > Len(s) THEN <<>>
    ELSE Let(WithoutIndex(s, i), LAMBDA others :
         Let(permutations(others), LAMBDA rest :
         [k \in 1..Len(rest) |-> <<s[i]>> \o rest[k]] \o permutations_from(s, i + 1)))

permutations(s) == IF s = <<>> THEN << <<>> >> ELSE permutations_from(s, 1)

\* a replay in which player_id is never advanced
RECURSIVE replay_one_player(_, _, _, _, _, _)
replay_one_player(st, board_copy, perm, k, player_id, toks) ==
    IF k > Len(perm) THEN [status |-> "ok", outcome |-> Draw, st |-> st]
    ELSE Let(play(st, board_copy, perm[k][1], perm[k][2], toks[player_id + 1]), LAMBDA res :
         IF res.status # "ok" THEN [status |-> res.status, outcome |-> None, st |-> res.st]
         ELSE Let(winner(res.st, board_copy), LAMBDA w :
              IF w # None THEN [status |-> "ok", outcome |-> w, st |-> res.st]
              ELSE replay_one_player(res.st, board_copy, perm, k + 1, player_id, toks)))

\* the loop over the moves of perm from the k-th on: play the move, stop
\* with the winner if there is one, else pass to the next player; 'Draw'
\* when the moves run out.  An exception of play ends the construction.
RECURSIVE replay(_, _, _, _, _, _)
replay(st, board_copy, perm, k, player_id, toks) ==
    IF k > Len(perm) THEN [status |-> "ok", outcome |-> Draw, st |-> st]
    ELSE Let(play(st, board_copy, perm[k][1], perm[k][2], toks[player_id + 1]), LAMBDA res :
         IF res.status # "ok" THEN [status |-> res.status, outcome |-> None, st |-> res.st]
         ELSE Let(winner(res.st, board_copy), LAMBDA w :
              IF w # None THEN [status |-> "ok", outcome |-> w, st |-> res.st]
              ELSE replay(res.st, board_copy, perm, k + 1,
                          (player_id + 1) % Len(toks), toks)))

\* full_tree_search, the loop over move_permuations for the permutations
\* from the lo-th to the hi-th, in order: each is replayed on a new copy of
\* the board, which nothing refers to once the next copy is bound to
\* board_copy; an exception ends the loop.  The range is run as its first
\* half followed by its second half.
RECURSIVE replay_all(_, _, _, _, _, _)
replay_all(st, b, toks, perms, lo, hi) ==
    IF lo > hi THEN [status |-> "ok", st |-> st, outcomes |-> <<>>]
    ELSE IF lo = hi
    THEN Let(copy(st, b), LAMBDA made :
         Let(replay(made.st, made.ret, perms[lo], 1, 0, toks), LAMBDA res :
         [status |-> res.status, st |-> Kept(res.st, st),
          outcomes |-> IF res.status = "ok" THEN <<res.outcome>> ELSE <<>>]))
    ELSE Let(replay_all(st, b, toks, perms, lo, (lo + hi) \div 2), LAMBDA first :
         IF first.status # "ok" THEN first
         ELSE Let(first.st, LAMBDA left :
              Let(replay_all(left, b, toks, perms, ((lo + hi) \div 2) + 1, hi),
                  LAMBDA second :
              [status |-> second.status, st |-> second.st,
               outcomes |-> first.outcomes \o second.outcomes])))

\* full_tree_search, the dict winners for the permutations perms of
\* move_permuations: the outcome of each replay, or the exception raised by
\* the first replay that raises, and the store the caller is left with
winners_over(st, b, toks, perms) ==
    Let(replay_all(st, b, toks, perms, 1, Len(perms)), LAMBDA played :
    IF played.status # "ok"
    THEN [status |-> played.status, st |-> played.st,
          move_permutations |-> <<>>, winners |-> <<>>]
    ELSE [status |-> "ok", st |-> played.st,
          move_permutations |-> perms,
          winners |-> [perm \in {perms[k] : k \in 1..Len(perms)} |->
                          played.outcomes[CHOOSE k \in 1..Len(perms) : perms[k] = perm]]])

\* full_tree_search(board, tokens) up to the definition of get_move: the
\* list move_permuations, every permutation of the board's empty cells, and
\* the dict winners
full_tree_search(st, b, toks) ==
    Let(permutations(st.boards[b].empty_cells), LAMBDA perms :
    winners_over(st, b, toks, perms))

\* the None get_move returns where a move is a (row, col)
NoMove == <<>>

\* perm[:n]
Prefix(perm, n) == SubSeq(perm, 1, IF n < Len(perm) THEN n ELSE Len(perm))

\* a subset that keeps every permutation, whatever was played
perm_subset_unfiltered(perms, played) == perms

\* get_move's perm_subset: the permutations that start with the moves played
perm_subset(perms, played) ==
    SelectSeq(perms, LAMBDA perm : Prefix(perm, Len(played)) = played)

\* a value that counts a draw as a loss
value_draw_loses(outcome, token) == IF outcome = token THEN WIN ELSE LOSS

\* a value that counts a draw as a win
value_draw_wins(outcome, token) ==
    IF outcome = token \/ outcome = Draw THEN WIN ELSE LOSS

\* the value get_move gives an outcome, for the player with this token
value(outcome, token) ==
    IF outcome = token THEN WIN ELSE IF outcome = Draw THEN DRAW ELSE LOSS

\* sum(values[lo..hi]), added up as the sum of its two halves
RECURSIVE sum(_, _, _)
sum(values, lo, hi) ==
    IF lo > hi THEN 0
    ELSE IF lo = hi THEN values[lo]
    ELSE sum(values, lo, (lo + hi) \div 2) + sum(values, ((lo + hi) \div 2) + 1, hi)

\* next_moves[move]: the values of the permutations of subset whose next
\* move it is, in the order of subset
next_moves(subset, wins, token, num_moves, move) ==
    Let(SelectSeq(subset, LAMBDA perm : perm[num_moves + 1] = move), LAMBDA with :
    [k \in 1..Len(with) |-> value(wins[with[k]], token)])

\* get_move past its edge cases: the table is filtered by the moves played,
\* the next moves are scored, and the best are the moves random.sample can
\* pick; or the exception raised.  statistics.mean is exact for these
\* values: two means are compared as fractions.
best_moves(perms, wins, self, token) ==
    Let(Len(self.played_positions), LAMBDA num_moves :
    Let(IF self.played_positions = <<>> THEN perms
        ELSE perm_subset(perms, self.played_positions), LAMBDA subset :
    IF \E k \in 1..Len(subset) : Len(subset[k]) <= num_moves
    THEN [status |-> "IndexError", moves |-> {}]
    ELSE
    Let({subset[k][num_moves + 1] : k \in 1..Len(subset)}, LAMBDA candidates :
    Let([move \in candidates |-> next_moves(subset, wins, token, num_moves, move)],
        LAMBDA values :
    Let([move \in candidates |-> sum(values[move], 1, Len(values[move]))],
        LAMBDA totals :
    Let({move \in candidates : \A o \in candidates :
            totals[move] * Len(values[o]) >= totals[o] * Len(values[move])},
        LAMBDA best :
    IF best = {} THEN [status |-> "ValueError", moves |-> {}]
    ELSE [status |-> "ok", moves |-> best]))))))

\* a get_move without the edge case of one empty cell
get_move_one_edge_case(perms, wins, self, token) ==
    IF self.empty_cells = <<>> THEN [status |-> "ok", moves |-> {NoMove}]
    ELSE best_moves(perms, wins, self, token)

\* get_move(board, token), self the Board object passed: the moves it can
\* return, or the exception raised.  None is returned for a full board
\* (moves = {NoMove}), the one empty cell for a board with one.
get_move(perms, wins, self, token) ==
    IF self.empty_cells = <<>> THEN [status |-> "ok", moves |-> {NoMove}]
    ELSE IF Len(self.empty_cells) = 1
    THEN [status |-> "ok", moves |-> {self.empty_cells[1]}]
    ELSE best_moves(perms, wins, self, token)

\* ------------------------------------------------------------------------
\* The table full_tree_search builds from a board (SpecTable)
\* ------------------------------------------------------------------------
\* the number of empty cells of grid g
Empties(g) ==
    Cardinality({p \in Positions(Len(g)) : g[p[1] + 1][p[2] + 1] = empty})

\* a board with at most MaxSearchCells empty cells and any grid, and the
\* tokens of the players
InitTable ==
    /\ num_rows \in BoardSizes
    /\ \E g \in {x \in Grids(num_rows) : Empties(x) <= MaxSearchCells} :
       \E st \in {BoardWithGrid(num_rows, g)} :
           heap = st.heap /\ boards = st.boards
    /\ origin = <<[op |-> "Board", arg |-> "", source |-> 0]>>
    /\ last = NoCall
    /\ tokens \in TokenLists
    /\ move_permutations = <<>>
    /\ winners = <<>>
    /\ NoTree
    /\ NoGame

\* tree_search = full_tree_search(board, tokens)
FullTreeSearch ==
    /\ move_permutations = <<>>
    /\ last.op # "full_tree_search"
    /\ \E res \in {full_tree_search(Store, 1, tokens)} :
           /\ heap' = res.st.heap
           /\ boards' = res.st.boards
           /\ move_permutations' = res.move_permutations
           /\ winners' = res.winners
           /\ last' = [NoCall EXCEPT !.op = "full_tree_search", !.self = 1,
                                     !.status = res.status]
    /\ UNCHANGED <<game, num_rows, origin, tokens, root, node, visited_nodes, nodes_made>>

NextTable == FullTreeSearch

SpecTable == InitTable /\ [][NextTable]_vars

\* every ordering of the cells of the list s, each cell once
Orderings(s) ==
    {p \in [1..Len(s) -> {s[i] : i \in 1..Len(s)}] :
        \A i, j \in 1..Len(s) : i # j => p[i] # p[j]}

\* grid g after the first k moves of perm, the tokens toks taking turns
\* from toks[1]
GridAfter(g, perm, k, toks) ==
    [r \in 1..Len(g) |-> [c \in 1..Len(g) |->
        IF \E j \in 1..k : perm[j] = <<r - 1, c - 1>>
        THEN toks[(((CHOOSE j \in 1..k : perm[j] = <<r - 1, c - 1>>) - 1) % Len(toks)) + 1]
        ELSE g[r][c]]]

\* the moves of perm after which some line of the grid is uniform
Decided(g, perm, toks) ==
    {k \in 1..Len(perm) :
        \E after \in {GridAfter(g, perm, k, toks)} :
        \E line \in 1..(2 * Len(g) + 2) : Uniform(after, line)}

\* the token of the first uniform line of g, a grid that has one
LineToken(g) ==
    LET k == CHOOSE k \in 1..(2 * Len(g) + 2) :
                 /\ Uniform(g, k)
                 /\ \A j \in 1..(k - 1) : ~Uniform(g, j)
    IN  g[Lines(Len(g))[k][1][1]][Lines(Len(g))[k][1][2]]

\* C9: once the table is built it has one entry for each ordering of the
\* board's empty cells, and no other; the entry is 'Draw' if no move of the
\* ordering leaves a uniform line, else the token winner() reports after
\* the first move that does, which is the token that played that move
\* whenever the board had no uniform line to begin with.
C9_TableIsReplayOutcome ==
    move_permutations # <<>> =>
        /\ DOMAIN winners = Orderings(boards[1].empty_cells)
        /\ Len(move_permutations) = Cardinality(DOMAIN winners)
        /\ \A grid \in {Grid(1)} : \A perm \in DOMAIN winners :
           \A stops \in {Decided(grid, perm, tokens)} :
               /\ stops = {} => winners[perm] = Draw
               /\ stops # {} =>
                      \A first \in {k \in stops : \A j \in stops : k <= j} :
                      \A after \in {GridAfter(grid, perm, first, tokens)} :
                          /\ winners[perm] = LineToken(after)
                          /\ (\A line \in 1..(2 * num_rows + 2) : ~Uniform(grid, line))
                                 => winners[perm] = tokens[((first - 1) % Len(tokens)) + 1]

\* C9 witness: a table built from a 3x3 board without a uniform line, with
\* an ordering won by the second player at its second move, an ordering
\* that is a draw, and three players
C9_Witness ==
    /\ move_permutations # <<>>
    /\ num_rows = DefaultRows
    /\ Len(tokens) = 3
    /\ \A line \in 1..(2 * num_rows + 2) : ~Uniform(Grid(1), line)
    /\ \E perm \in DOMAIN winners : winners[perm] = Draw
    /\ \E perm \in DOMAIN winners :
           /\ winners[perm] = tokens[2]
           /\ Decided(Grid(1), perm, tokens) = {2, 3}

\* ------------------------------------------------------------------------
\* A game on one board with the search built on the way (SpecSearch)
\* ------------------------------------------------------------------------
\* board = Board(n, n) and the tokens of player_set
InitSearch ==
    /\ num_rows \in PairSizes
    /\ \E res \in {Board(EmptyStore, num_rows, num_rows)} :
           heap = res.st.heap /\ boards = res.st.boards
    /\ origin = <<[op |-> "Board", arg |-> "", source |-> 0]>>
    /\ last = NoCall
    /\ tokens \in TokenLists
    /\ move_permutations = <<>>
    /\ winners = <<>>
    /\ NoTree
    /\ NoGame

\* the player whose turn it is plays an empty cell, while the game is on
PlayTurn ==
    /\ winner(Store, 1) = None
    /\ ~full(Store, 1)
    /\ \E k \in 1..Len(boards[1].empty_cells) :
       \E res \in {play(Store, 1, boards[1].empty_cells[k][1], boards[1].empty_cells[k][2],
                        tokens[(Len(boards[1].played_positions) % Len(tokens)) + 1])} :
           /\ heap' = res.st.heap
           /\ boards' = res.st.boards
           /\ last' = [NoCall EXCEPT !.op = "play", !.self = 1, !.status = res.status]
    /\ UNCHANGED <<game, num_rows, origin, tokens, move_permutations, winners,
                 root, node, visited_nodes, nodes_made>>

\* tree_search(board, token = token) with boards[b] as the board: one of
\* the moves random.sample can pick, or the exception
GetMoveOn(b) ==
    /\ move_permutations # <<>>
    /\ \E i \in 1..Len(tokens) :
       \E res \in {get_move(move_permutations, winners, boards[b], tokens[i])} :
           \/ /\ res.status = "ok"
              /\ \E move \in res.moves :
                     last' = [NoCall EXCEPT !.op = "get_move", !.self = b,
                                  !.token = tokens[i], !.retPos = move]
           \/ /\ res.status # "ok"
              /\ last' = [NoCall EXCEPT !.op = "get_move", !.self = b,
                              !.token = tokens[i], !.status = res.status]
    /\ UNCHANGED <<game, num_rows, heap, boards, origin, tokens, move_permutations, winners,
                 root, node, visited_nodes, nodes_made>>

\* the computer player's turn asks for a move on the board of the game
GetMove == GetMoveOn(1)

NextSearch == FullTreeSearch \/ PlayTurn \/ GetMove

SpecSearch == InitSearch /\ [][NextSearch]_vars

\* the search was built from a board with no move played
BuiltFromEmptyBoard ==
    /\ move_permutations # <<>>
    /\ Len(move_permutations[1]) = num_rows * num_rows

\* C10: with the search built from the empty board, get_move on the board
\* of the game, for any token of the players, does not raise and returns
\* one of the board's empty cells, as long as the board has an empty cell.
C10_GetMoveReturnsEmptyCell ==
    (last.op = "get_move" /\ BuiltFromEmptyBoard /\ boards[1].empty_cells # <<>>) =>
        /\ last.status = "ok"
        /\ InList(last.retPos, boards[1].empty_cells)

\* C10 witness: get_move answered in mid-game, two moves played and two
\* cells empty, for the token of the player who is not to move
C10_Witness ==
    /\ last.op = "get_move" /\ BuiltFromEmptyBoard
    /\ last.status = "ok"
    /\ Len(boards[1].played_positions) = 2
    /\ Len(boards[1].empty_cells) = 2
    /\ last.token = tokens[2]
    /\ Len(tokens) = 3

\* C12: get_move returns None for a board without an empty cell and the
\* one empty cell of a board with exactly one, for every token, whatever
\* board the table was built from.
C12_EdgeCases ==
    last.op = "get_move" =>
        /\ boards[last.self].empty_cells = <<>> =>
               last.status = "ok" /\ last.retPos = NoMove
        /\ Len(boards[last.self].empty_cells) = 1 =>
               last.status = "ok" /\ last.retPos = boards[last.self].empty_cells[1]

\* C12 witness: get_move returned the one empty cell, asked with a table
\* that was built in mid-game
C12_Witness ==
    /\ last.op = "get_move" /\ last.status = "ok"
    /\ Len(boards[1].empty_cells) = 1
    /\ last.retPos = boards[1].empty_cells[1]
    /\ Len(move_permutations[1]) = 2

\* ------------------------------------------------------------------------
\* get_move asked about the lines of play of a table (SpecMove)
\* ------------------------------------------------------------------------
\* how many cells of grid g hold token
Holds(g, token) ==
    Cardinality({p \in Positions(Len(g)) : g[p[1] + 1][p[2] + 1] = token})

\* a position of a game of O against X in progress: O moved first, the
\* players took turns, no line is uniform
InProgress(g) ==
    /\ Holds(g, "O") - Holds(g, "X") \in {0, 1}
    /\ \A line \in 1..(2 * Len(g) + 2) : ~Uniform(g, line)

\* the board the table is built from, a position in progress with at most
\* MaxTryCells empty cells, and a second, fresh board of the same size
InitMove ==
    /\ num_rows \in BoardSizes
    /\ \E g \in {x \in Grids(num_rows) : Empties(x) <= MaxTryCells /\ InProgress(x)} :
       \E first \in {BoardWithGrid(num_rows, g)} :
       \E second \in {Board(first, num_rows, num_rows)} :
           heap = second.st.heap /\ boards = second.st.boards
    /\ origin = <<[op |-> "Board", arg |-> "", source |-> 0],
                  [op |-> "Board", arg |-> "", source |-> 0]>>
    /\ last = NoCall
    /\ tokens \in TokenLists
    /\ move_permutations = <<>>
    /\ winners = <<>>
    /\ NoTree
    /\ NoGame

\* on the second board the players, taking turns, try out the cells the
\* table was built over
TryMove ==
    /\ move_permutations # <<>>
    /\ \E k \in 1..Len(boards[2].empty_cells) :
           /\ InList(boards[2].empty_cells[k], boards[1].empty_cells)
           /\ \E res \in {play(Store, 2, boards[2].empty_cells[k][1],
                               boards[2].empty_cells[k][2],
                               tokens[(Len(boards[2].played_positions) % Len(tokens)) + 1])} :
                  /\ heap' = res.st.heap
                  /\ boards' = res.st.boards
                  /\ last' = [NoCall EXCEPT !.op = "play", !.self = 2, !.status = res.status]
    /\ UNCHANGED <<game, num_rows, origin, tokens, move_permutations, winners,
                 root, node, visited_nodes, nodes_made>>

\* get_move is asked about the second board
GetMoveSecond == GetMoveOn(2)

NextMove == FullTreeSearch \/ TryMove \/ GetMoveSecond

SpecMove == InitMove /\ [][NextMove]_vars

\* the table's permutations that start with the moves played on board b and
\* go on
Matching(b) ==
    {perm \in DOMAIN winners :
        /\ Len(perm) > Len(boards[b].played_positions)
        /\ \A i \in 1..Len(boards[b].played_positions) :
               perm[i] = boards[b].played_positions[i]}

\* the candidate next moves on board b
Candidates(b) == {perm[Len(boards[b].played_positions) + 1] : perm \in Matching(b)}

\* the permutations that count for move on board b
Through(b, move) ==
    {perm \in Matching(b) : perm[Len(boards[b].played_positions) + 1] = move}

\* the sum of the scores of move on board b, for the player with token:
\* +100 for each permutation token wins, -100 for each another token wins
Total(b, move, token) ==
    100 * Cardinality({perm \in Through(b, move) : winners[perm] = token})
    - 100 * Cardinality({perm \in Through(b, move) :
                            winners[perm] # token /\ winners[perm] # Draw})

\* the candidates whose mean score is the maximum (means compared as
\* fractions)
MaxMean(b, token) ==
    {move \in Candidates(b) : \A o \in Candidates(b) :
        Total(b, move, token) * Cardinality(Through(b, o))
            >= Total(b, o, token) * Cardinality(Through(b, move))}

BoardValue(st, b) ==
    [num_rows |-> st.boards[b].num_rows, num_cols |-> st.boards[b].num_cols,
     rows |-> rows(st, b),
     played_positions |-> st.boards[b].played_positions,
     played_tokens |-> st.boards[b].played_tokens,
     empty_cells |-> st.boards[b].empty_cells]

\* the store that holds the boards bs and nothing else, each with row
\* objects of its own
StoreOf(bs) ==
    [heap |-> IF Len(bs) = 1 THEN bs[1].rows ELSE bs[1].rows \o bs[2].rows,
     boards |-> [k \in 1..Len(bs) |->
         [num_rows |-> bs[k].num_rows, num_cols |-> bs[k].num_cols,
          board |-> [i \in 1..Len(bs[k].rows) |-> (k - 1) * Len(bs[1].rows) + i],
          played_positions |-> bs[k].played_positions,
          played_tokens |-> bs[k].played_tokens,
          empty_cells |-> bs[k].empty_cells]]]

\* a winner field that reports neither a win nor a draw
winner_field_never(found, board_full) == None

\* a winner field that never reports a draw
winner_field_no_draw(found, board_full) == found

\* Node.__init__: self.winner, 'Draw' for a full board without a winner
winner_field(found, board_full) ==
    IF found = None /\ board_full THEN Draw ELSE found

\* Node.__init__(board, tokens, move, parent): the node is the id-th Node
\* object constructed.  Returns the node and the store the caller is left
\* with, or the error play raised.
Node(st, b, toks, move, parent, id) ==
    Let(copy(st, b), LAMBDA made :
    Let(IF parent.id = 0 /\ move = NoMove THEN None ELSE toks[1], LAMBDA token_played :
    Let(IF move # NoMove
        THEN play(made.st, made.ret, move[1], move[2], token_played)
        ELSE [st |-> made.st, status |-> "ok"], LAMBDA res :
    IF res.status # "ok"
    THEN [status |-> res.status, st |-> Kept(res.st, st), node |-> NoNode]
    ELSE Let(winner_field(winner(res.st, made.ret), full(res.st, made.ret)),
             LAMBDA won :
         [status |-> "ok",
          st |-> Kept(res.st, st),
          node |-> [id |-> id,
                    board |-> BoardValue(res.st, made.ret),
                    tokens |-> toks,
                    move |-> move,
                    parent |-> parent,
                    token_played |-> token_played,
                    winner |-> won,
                    board_full |-> full(res.st, made.ret),
                    next_moves |-> IF won = None
                                   THEN res.st.boards[made.ret].empty_cells
                                   ELSE None]]))))

\* Node.turn_number
RECURSIVE turn_number(_)
turn_number(x) ==
    IF x.parent.id = 0 THEN (IF x.move = NoMove THEN 0 ELSE 1)
    ELSE turn_number(x.parent) + 1

\* an equality of nodes that leaves the boards out
NodeEqMoveOnly(x, y) ==
    /\ x.move = y.move
    /\ x.token_played = y.token_played

\* Node.__eq__: the same move, the same token played, equal boards
NodeEq(x, y) ==
    /\ x.move = y.move
    /\ x.token_played = y.token_played
    /\ x.board.rows = y.board.rows

\* a comparison of the boards cell by cell, no symmetry applied
NodeSameBoard(x, y) == x.board.rows = y.board.rows

\* Node.isomorphic_to: self.board.isomorphic_to(other.board)
NodeIsomorphicTo(x, y) ==
    Let(StoreOf(<<x.board, y.board>>), LAMBDA st : isomorphic_to(st, 1, 2))

\* a token list that is rotated at every node, the root included
tokens_rotate_always(x) == Tail(x.tokens) \o <<Head(x.tokens)>>

\* Node.children, the token list handed to the children: the root without
\* a move hands its own list on, every other node rotates it by one
tokens_rotate(x) ==
    IF x.parent.id = 0 /\ x.move = NoMove THEN x.tokens
    ELSE Tail(x.tokens) \o <<Head(x.tokens)>>

\* Node.children, the loop over next_moves from the k-th move on: a child
\* Node is constructed from self.board, held by st, for the move and
\* appended unless it is isomorphic to a child already in child_nodes.
\* Returns the list and the store that holds self.board.
RECURSIVE child_nodes(_, _, _, _, _)
child_nodes(x, st, k, kept, id) ==
    IF k > Len(x.next_moves) THEN [list |-> kept, st |-> st]
    ELSE Let(Node(st, 1, tokens_rotate(x), x.next_moves[k], x, id + k),
             LAMBDA made :
         Let(IF \A i \in 1..Len(kept) : ~NodeIsomorphicTo(made.node, kept[i])
             THEN Append(kept, made.node) ELSE kept, LAMBDA longer :
         Let(made.st, LAMBDA left :
         child_nodes(x, left, k + 1, longer, id))))

\* children that are made once: a later request constructs nothing and
\* answers with the Node objects of the first
children_made_once(x, id) ==
    IF x.winner # None
    THEN [none |-> TRUE, list |-> <<>>, made |-> 0, board |-> x.board]
    ELSE Let(child_nodes(x, StoreOf(<<x.board>>), 1, <<>>, x.id), LAMBDA loop :
         [none |-> FALSE, list |-> loop.list, made |-> 0,
          board |-> BoardValue(loop.st, 1)])

\* Node.children, when id Node objects have been constructed so far: None
\* for a node with a winner or a draw, else the list of child nodes.
\* `made` is the number of Node objects the request constructed, `board`
\* is self.board after the request.
children(x, id) ==
    IF x.winner # None
    THEN [none |-> TRUE, list |-> <<>>, made |-> 0, board |-> x.board]
    ELSE Let(child_nodes(x, StoreOf(<<x.board>>), 1, <<>>, id), LAMBDA loop :
         [none |-> FALSE, list |-> loop.list, made |-> Len(x.next_moves),
          board |-> BoardValue(loop.st, 1)])

\* ------------------------------------------------------------------------
\* SpecTree: a game tree is started from a board, and a caller walks down
\* it, asking the node in hand for its children and taking one of them
\* ------------------------------------------------------------------------
\* the cells of g are filled in row-major order: no empty cell comes before
\* a filled one
FilledFirst(g) ==
    \A p, q \in Positions(Len(g)) :
        (p[1] * Len(g) + p[2] < q[1] * Len(g) + q[2] /\ g[p[1] + 1][p[2] + 1] = empty)
            => g[q[1] + 1][q[2] + 1] = empty

\* the grids a tree is started from: O has moved as often as X or once
\* more; every such 2x2 grid, and the 3x3 grids whose last cells, at most
\* MaxTreeCells of them, are the empty ones
TreeRoots(n) ==
    {g \in Grids(n) :
        /\ Holds(g, "O") - Holds(g, "X") \in {0, 1}
        /\ n \in PairSizes \/ (Empties(g) <= MaxTreeCells /\ FilledFirst(g))}

InitTree ==
    /\ num_rows \in BoardSizes
    /\ \E g \in TreeRoots(num_rows) : \E st \in {BoardWithGrid(num_rows, g)} :
           heap = st.heap /\ boards = st.boards
    /\ origin = <<[op |-> "Board", arg |-> "", source |-> 0]>>
    /\ last = NoCall
    /\ tokens \in TreeTokenLists
    /\ move_permutations = <<>>
    /\ winners = <<>>
    /\ NoTree
    /\ NoGame

\* node = Node(board, tokens, move): the root of a tree
MakeRootWith(move) ==
    /\ root = NoNode
    /\ \E res \in {Node(Store, 1, tokens, move, NoNode, 1)} :
           /\ res.status = "ok"
           /\ heap' = res.st.heap
           /\ boards' = res.st.boards
           /\ root' = res.node
           /\ node' = res.node
           /\ nodes_made' = 1
           /\ last' = [NoCall EXCEPT !.op = "Node", !.self = 1]
    /\ UNCHANGED <<game, num_rows, origin, tokens, move_permutations, winners, visited_nodes>>

\* node = Node(board, tokens)
MakeRoot == MakeRootWith(NoMove)

\* kids = node.children, asked at most twice in a row of the same node
Children ==
    /\ node # NoNode
    /\ ~(last.op = "children" /\ last.arg = "again")
    /\ \E res \in {children(node, nodes_made)} :
           /\ last' = [NoCall EXCEPT !.op = "children", !.asked = node,
                                     !.arg = IF last.op = "children" THEN "again" ELSE "",
                                     !.retNone = res.none, !.retNodes = res.list]
           /\ node' = [node EXCEPT !.board = res.board]
           /\ root' = IF root.id = node.id THEN [root EXCEPT !.board = res.board]
                      ELSE root
           /\ nodes_made' = nodes_made + res.made
    /\ UNCHANGED <<game, num_rows, heap, boards, origin, tokens, move_permutations, winners,
                   visited_nodes>>

\* node = kids[i]
Descend ==
    /\ last.op = "children"
    /\ \E i \in 1..Len(last.retNodes) : node' = last.retNodes[i]
    /\ last' = [NoCall EXCEPT !.op = "descend"]
    /\ UNCHANGED <<game, num_rows, heap, boards, origin, tokens, move_permutations, winners,
                   root, visited_nodes, nodes_made>>

NextTree == MakeRoot \/ Children \/ Descend

SpecTree == InitTree /\ [][NextTree]_vars

\* grid g has a uniform line or no empty cell
Over(g) == (\E k \in 1..(2 * Len(g) + 2) : Uniform(g, k)) \/ Empties(g) = 0

\* C13: the node in hand has a token or 'Draw' in its winner field exactly
\* when its board has a uniform line or no empty cell; asked for its
\* children, such a node answers None and any other node answers with a
\* list of at least one child.
C13_TerminalNodesHaveNoChildren ==
    /\ node # NoNode => ((node.winner # None) <=> Over(node.board.rows))
    /\ last.op = "children" =>
           /\ Over(last.asked.board.rows) => last.retNone
           /\ ~Over(last.asked.board.rows) => ~last.retNone /\ Len(last.retNodes) >= 1

C13_Witness ==
    /\ last.op = "children"
    /\ last.asked.parent.id # 0
    /\ last.asked.winner = Draw
    /\ last.retNone

\* grid g turned by a quarter turn, and g mirrored in a diagonal
Turned(g) == [i \in 1..Len(g) |-> [j \in 1..Len(g) |-> g[Len(g) + 1 - j][i]]]
Mirrored(g) == [i \in 1..Len(g) |-> [j \in 1..Len(g) |-> g[j][i]]]

\* the images of g under the eight symmetries of the square
Images(g) ==
    {g, Turned(g), Turned(Turned(g)), Turned(Turned(Turned(g))),
     Mirrored(g), Turned(Mirrored(g)), Turned(Turned(Mirrored(g))),
     Turned(Turned(Turned(Mirrored(g))))}

\* grid g after token is put on the cell at position m
After(g, m, token) == [g EXCEPT ![m[1] + 1][m[2] + 1] = token]

\* C14: in the list a node answers with, no two children have boards that
\* are images of each other under a symmetry of the square; the board after
\* a move to any empty cell of the node is an image of the board of some
\* child in the list; and no cell that comes before a child's move in
\* next_moves leads to an image of that child's board.
C14_ChildrenUniqueUpToSymmetry ==
    (last.op = "children" /\ ~last.retNone) =>
        \A kids \in {last.retNodes} :
        \A g \in {last.asked.board.rows} :
        \A cells \in {last.asked.board.empty_cells} :
        \A token \in {kids[1].token_played} :
        \A images \in {[i \in 1..Len(kids) |-> Images(kids[i].board.rows)]} :
            /\ \A i, j \in 1..Len(kids) :
                   i # j => kids[j].board.rows \notin images[i]
            /\ \A k \in 1..Len(cells) :
                   \E i \in 1..Len(kids) : After(g, cells[k], token) \in images[i]
            /\ \A i \in 1..Len(kids) :
                   \E k \in 1..Len(cells) :
                       /\ kids[i].move = cells[k]
                       /\ kids[i].board.rows = After(g, cells[k], token)
                       /\ \A e \in 1..(k - 1) : After(g, cells[e], token) \notin images[i]

C14_Witness ==
    /\ last.op = "children"
    /\ Len(last.retNodes) >= 2
    /\ Len(last.retNodes) < Len(last.asked.next_moves)
    /\ last.retNodes[2].move # last.asked.next_moves[2]

\* C27: in a tree whose root board has no complete line, the empty board
\* among them, every node, in hand or just returned as a child, has None,
\* 'Draw' or the token it played in its winner field, and the complete lines
\* of its board hold one token only.
C27_WinIsTheMoversWin ==
    (root # NoNode /\ ~\E k \in 1..(2 * num_rows + 2) : Uniform(root.board.rows, k)) =>
        \A x \in {node} \cup {last.retNodes[i] : i \in 1..Len(last.retNodes)} :
            /\ x.winner \in {None, Draw, x.token_played}
            /\ \A k, m \in 1..(2 * num_rows + 2) :
                   (Uniform(x.board.rows, k) /\ Uniform(x.board.rows, m)) =>
                       /\ x.winner = x.token_played
                       /\ x.board.rows[Lines(num_rows)[k][1][1]][Lines(num_rows)[k][1][2]]
                            = x.board.rows[Lines(num_rows)[m][1][1]][Lines(num_rows)[m][1][2]]

C27_Witness ==
    /\ root # NoNode /\ root.board.played_positions = <<>>
    /\ node.parent.id # 0
    /\ node.winner = node.token_played
    /\ Len(tokens) >= 2

\* a position of a game of O against X that stops at the first win: a
\* position in progress, or one whose last move, by the player whose turn
\* it was, was made in a position in progress
PlayedOut(g) ==
    \/ InProgress(g)
    \/ \E p \in Positions(Len(g)) :
       \E before \in {[g EXCEPT ![p[1] + 1][p[2] + 1] = empty]} :
           /\ g[p[1] + 1][p[2] + 1] # empty
           /\ InProgress(before)
           /\ Holds(before, "O") - Holds(before, "X") =
                  (IF g[p[1] + 1][p[2] + 1] = "O" THEN 0 ELSE 1)

\* C28: for a board in a position of a game that stops at the first win,
\* winner() and full() of every board of its isomorphisms list return what
\* they return for the board itself.
C28_ImagesShareTheOutcome ==
    (last.op = "isomorphisms" /\ PlayedOut(Grid(1))) =>
        \A k \in 1..Len(last.retGrids) :
        \A image \in {BoardWithGrid(num_rows, last.retGrids[k])} :
            /\ winner(image, 1) = winner(Store, 1)
            /\ full(image, 1) = full(Store, 1)

C28_Witness ==
    /\ last.op = "isomorphisms"
    /\ PlayedOut(Grid(1))
    /\ winner(Store, 1) = "X"
    /\ Len(last.retGrids) >= 4
    /\ \E k \in 1..Len(last.retGrids) : last.retGrids[k] # Grid(1)

\* the number of moves on the path from the root to x
RECURSIVE Level(_)
Level(x) == IF x.parent.id = 0 THEN 0 ELSE Level(x.parent) + 1

\* C15: in a tree whose root was made without a move from the token list
\* T, the root plays no token, its children play T[0], and every node at
\* turn t >= 1 plays T[(t - 1) mod n], n the length of T; turn_number is
\* the number of moves from the root.
C15_TokensRotateByTurn ==
    /\ node # NoNode =>
           /\ turn_number(node) = Level(node)
           /\ Level(node) = 0 => node.token_played = None
           /\ Level(node) >= 1 =>
                  node.token_played = tokens[((Level(node) - 1) % Len(tokens)) + 1]
    /\ last.op = "children" =>
           \A i \in 1..Len(last.retNodes) :
               /\ Level(last.retNodes[i]) = Level(last.asked) + 1
               /\ last.retNodes[i].token_played =
                      tokens[(Level(last.asked) % Len(tokens)) + 1]

C15_Witness ==
    /\ node # NoNode
    /\ Len(tokens) >= 2
    /\ Level(node) = Len(tokens) + 1
    /\ node.token_played = tokens[1]

\* ------------------------------------------------------------------------
\* game_tree.py: NodeIterator
\* ------------------------------------------------------------------------
\* x in self.visited_nodes: the list's membership test calls Node.__eq__
Visited(x, visited) == \E k \in 1..Len(visited) : NodeEq(visited[k], x)

\* get_unvisited_items(items), with <<>> for None: None for no items and
\* for items all visited, else the items not in visited_nodes
get_unvisited_items(items, visited) ==
    SelectSeq(items, LAMBDA item : ~Visited(item, visited))

\* a test that takes every node for the root
at_root_anywhere(current_node) == TRUE

\* depth_first_search: current_node.parent is None, where the search stops
at_root(current_node) == current_node.parent.id = 0

\* depth_first_search, the while loop: up the tree until a node has an
\* unvisited child or is the root; each test asks the node for its children
\* again.  Returns the node reached and the number of Nodes made so far.
RECURSIVE ascend(_, _, _)
ascend(current_node, visited, id) ==
    Let(children(current_node, id), LAMBDA kids :
    IF get_unvisited_items(kids.list, visited) # <<>> \/ current_node.parent.id = 0
    THEN [node |-> current_node, id |-> id + kids.made]
    ELSE ascend(current_node.parent, visited, id + kids.made))

\* a search that yields a node only once it has no unvisited child: it goes
\* down to the first unvisited child before it yields the node it is at
RECURSIVE depth_first_search_children_first(_, _, _)
depth_first_search_children_first(current_node, visited, id) ==
    Let(children(current_node, id), LAMBDA kids :
    Let(get_unvisited_items(kids.list, visited), LAMBDA unvisited_children :
    Let(unvisited_children = <<>> /\ Visited(current_node, visited), LAMBDA spent :
    IF spent /\ at_root(current_node)
    THEN [status |-> "StopIteration", node |-> current_node, visited |-> visited,
          id |-> id + kids.made]
    ELSE Let(IF spent THEN ascend(current_node, visited, id + kids.made)
             ELSE [node |-> current_node, id |-> id + kids.made], LAMBDA at :
         Let(IF unvisited_children # <<>> THEN unvisited_children[1] ELSE at.node,
             LAMBDA next_node :
         IF ~Visited(at.node, visited) /\ unvisited_children = <<>>
         THEN [status |-> "ok", node |-> next_node,
               visited |-> Append(visited, at.node), id |-> at.id]
         ELSE depth_first_search_children_first(next_node, visited, at.id))))))

\* NodeIterator.depth_first_search(current_node), current_node being
\* self.node: returns the new self.node and visited_nodes, the node
\* returned (it is the one appended to visited_nodes), or StopIteration
RECURSIVE depth_first_search(_, _, _)
depth_first_search(current_node, visited, id) ==
    Let(children(current_node, id), LAMBDA kids :
    Let(get_unvisited_items(kids.list, visited), LAMBDA unvisited_children :
    Let(unvisited_children = <<>> /\ Visited(current_node, visited), LAMBDA spent :
    IF spent /\ at_root(current_node)
    THEN [status |-> "StopIteration", node |-> current_node, visited |-> visited,
          id |-> id + kids.made]
    ELSE Let(IF spent THEN ascend(current_node, visited, id + kids.made)
             ELSE [node |-> current_node, id |-> id + kids.made], LAMBDA at :
         Let(IF unvisited_children # <<>> THEN unvisited_children[1] ELSE at.node,
             LAMBDA next_node :
         IF ~Visited(at.node, visited)
         THEN [status |-> "ok", node |-> next_node,
               visited |-> Append(visited, at.node), id |-> at.id]
         ELSE depth_first_search(next_node, visited, at.id))))))

\* ------------------------------------------------------------------------
\* SpecIter: for n in iter(Node(board, tokens)), on the boards of SpecTree
\* ------------------------------------------------------------------------
\* next(node_iter), called until it raises StopIteration
NextNode ==
    /\ root # NoNode
    /\ last.status # "StopIteration"
    /\ \E res \in {depth_first_search(node, visited_nodes, nodes_made)} :
           /\ node' = res.node
           /\ visited_nodes' = res.visited
           /\ nodes_made' = res.id
           /\ last' = [NoCall EXCEPT !.op = "next", !.status = res.status]
    /\ UNCHANGED <<game, num_rows, heap, boards, origin, tokens, move_permutations, winners,
                   root>>

NextIter == MakeRoot \/ NextNode

SpecIter == InitTree /\ [][NextIter]_vars

\* the nodes of the tree below and including x, as the children lists give
\* them
RECURSIVE Reachable(_)
Reachable(x) ==
    Let(children(x, x.id).list, LAMBDA kids :
    {x} \cup UNION {Reachable(kids[i]) : i \in 1..Len(kids)})

\* x and y have the same move, token and grid
SameNode(x, y) ==
    /\ x.move = y.move
    /\ x.token_played = y.token_played
    /\ x.board.rows = y.board.rows

\* the moves from the root to x
RECURSIVE Path(_)
Path(x) == IF x.parent.id = 0 THEN <<>> ELSE Append(Path(x.parent), x.move)

\* C16: no two of the nodes yielded so far have the same move, token and
\* grid; each of them has the move, token and grid of a node of the tree;
\* and when the iteration has ended, every node of the tree has the move,
\* token and grid of a node that was yielded.
C16_EachNodeYieldedOnce ==
    /\ \A i, j \in 1..Len(visited_nodes) :
           i # j => ~SameNode(visited_nodes[i], visited_nodes[j])
    /\ last.status = "StopIteration" =>
           \A tree \in {Reachable(root)} :
               /\ \A x \in tree :
                      \E k \in 1..Len(visited_nodes) : SameNode(visited_nodes[k], x)
               /\ \A k \in 1..Len(visited_nodes) :
                      \E x \in tree : SameNode(visited_nodes[k], x)

C16_Witness ==
    /\ last.status = "StopIteration"
    /\ Len(visited_nodes) >= 4
    /\ \E x \in Reachable(root) :
       \E k \in 1..Len(visited_nodes) :
           SameNode(visited_nodes[k], x) /\ Path(visited_nodes[k]) # Path(x)

\* C24: the first node yielded is the root, the only yielded node without a
\* parent; the parent of every node yielded after it is a node yielded
\* earlier, the same object with the same path from the root.
C24_PreOrder ==
    /\ visited_nodes # <<>> =>
           /\ visited_nodes[1].id = root.id
           /\ visited_nodes[1].parent.id = 0
    /\ \A k \in 2..Len(visited_nodes) :
           /\ visited_nodes[k].parent.id # 0
           /\ \E j \in 1..(k - 1) :
                  /\ visited_nodes[j].id = visited_nodes[k].parent.id
                  /\ SameNode(visited_nodes[j], visited_nodes[k].parent)
                  /\ Path(visited_nodes[j]) = Path(visited_nodes[k].parent)

C24_Witness ==
    /\ last.status = "StopIteration"
    /\ \E k \in 3..Len(visited_nodes) :
           /\ Len(Path(visited_nodes[k])) = 1
           /\ Len(Path(visited_nodes[k - 1])) >= 2

\* the for loop goes on calling next until StopIteration is raised
SpecIterFair == SpecIter /\ WF_vars(NextIter)

\* C17: the iteration ends: StopIteration is raised after finitely many
\* calls of next; and when it is raised the root has been yielded and no
\* node of the tree has a child that was not yielded.
C17_IterationTerminates ==
    /\ <>(last.status = "StopIteration")
    /\ [](last.status = "StopIteration" =>
             /\ \E k \in 1..Len(visited_nodes) : SameNode(visited_nodes[k], root)
             /\ \A x \in Reachable(root) :
                \A kids \in {children(x, x.id).list} :
                \A i \in 1..Len(kids) :
                    \E k \in 1..Len(visited_nodes) : SameNode(visited_nodes[k], kids[i]))

C17_Witness ==
    /\ last.status = "StopIteration"
    /\ SameNode(visited_nodes[1], root)
    /\ Len(visited_nodes) >= 6
    /\ Level(visited_nodes[Len(visited_nodes)]) < Level(visited_nodes[Len(visited_nodes) - 1])

\* the identities of the Node objects of a list
Ids(nodes) == {nodes[i].id : i \in 1..Len(nodes)}

\* C19 as stated: a node asked for its children a second time answers with
\* the Node objects of the first answer and constructs no Node.
C19_ChildrenExpandedOnce ==
    [][(last.op = "children" /\ ~last.retNone /\ last'.op = "children")
           => /\ last'.retNodes = last.retNodes
              /\ nodes_made' = nodes_made]_vars

\* C19, amended: a node asked for its children a second time constructs one
\* new Node per empty cell of its board and answers with a list of new Node
\* objects, as long as the first answer and equal to it position by
\* position in move, token and grid.
C19_ChildrenRebuiltEachRequest ==
    [][(last.op = "children" /\ ~last.retNone /\ last'.op = "children")
           => /\ nodes_made' = nodes_made + Len(last.asked.board.empty_cells)
              /\ Ids(last'.retNodes) \cap Ids(last.retNodes) = {}
              /\ \A i \in Ids(last'.retNodes) : i > nodes_made
              /\ Len(last'.retNodes) = Len(last.retNodes)
              /\ \A i \in 1..Len(last.retNodes) :
                     SameNode(last'.retNodes[i], last.retNodes[i])]_vars

C19_Witness ==
    /\ last.op = "children"
    /\ last.arg = "again"
    /\ Len(last.retNodes) >= 2
    /\ nodes_made = 1 + 2 * Len(root.board.empty_cells)

\* ------------------------------------------------------------------------
\* SpecFrame: the board of a game is handed to both searches
\* ------------------------------------------------------------------------
\* node = Node(board, tokens, move) for an empty cell of the board
MakeRootMoved ==
    \E k \in 1..Len(boards[1].empty_cells) : MakeRootWith(boards[1].empty_cells[k])

\* kids = node.children, of the node just made
ChildrenOfRoot == last.op = "Node" /\ Children

NextFrame ==
    \/ FullTreeSearch
    \/ GetMove
    \/ IsomorphismsCall
    \/ MakeRoot
    \/ MakeRootMoved
    \/ ChildrenOfRoot

SpecFrame == InitTree /\ [][NextFrame]_vars

\* C18: building the table, asking it for a move, constructing a Node from
\* the board, asking the node for its children and computing the board's
\* isomorphisms leave the board's grid, played_positions, played_tokens and
\* empty_cells as they were, and asking a node for its children leaves the
\* node's own board as it was.
C18_SearchLeavesBoardUnchanged ==
    [][(last'.op \in {"full_tree_search", "get_move", "Node", "children", "isomorphisms"})
           => /\ Len(boards') = 1
              /\ ViewIn(Store', 1) = ViewIn(Store, 1)
              /\ last'.op = "children" => node'.board = node.board]_vars

C18_Witness ==
    /\ last.op = "children"
    /\ Len(last.retNodes) >= 2
    /\ node.move # NoMove
    /\ Len(move_permutations) >= 6
    /\ boards[1].played_positions # <<>>

\* C20: reflect('md') returns the grid mirrored in the main diagonal, cell
\* (i, j) holding what (j, i) held, so that the cells (i, i) keep their
\* values; reflect('ad') returns the grid mirrored in the anti-diagonal,
\* cell (i, j) holding what (N-1-j, N-1-i) held, so that the cells
\* (i, N-1-i) keep theirs.
C20_DiagonalReflections ==
    (last.op = "reflect" /\ last.arg \in {"md", "ad"}) =>
        \A g \in {Grid(last.self)} : \A r \in {Grid(last.retBoard)} :
        \A i, j \in 1..Len(g) :
            /\ last.arg = "md" => r[i][j] = g[j][i]
            /\ last.arg = "ad" => r[i][j] = g[Len(g) + 1 - j][Len(g) + 1 - i]

\* ------------------------------------------------------------------------
\* SpecAnyPlay: Board.play on one board with any integer coordinates
\* ------------------------------------------------------------------------
\* the coordinates tried on a board of size n: every index Python accepts,
\* -n..n-1, and one beyond at either end
Coordinates(n) == (0 - n - 1)..n

\* b.play(row, col, token) with any row and col; Game.play_turn passes
\* row - 1 and col - 1 of the numbers the user enters
PlayAnywhere ==
    \E row \in Coordinates(num_rows), col \in Coordinates(num_rows), token \in Tokens :
        Play(1, row, col, token, MaxAnyMoves)

SpecAnyPlay == Init /\ [][PlayAnywhere]_vars

\* C21: a play call that raises an error, whatever integers row and col
\* are, leaves the grid, played_positions, played_tokens and empty_cells of
\* the board as they were.
C21_FailedPlayChangesNothing ==
    [][(last'.op = "play" /\ last'.status # "ok")
           => ViewIn(Store', 1) = ViewIn(Store, 1)]_vars

\* C22: with the search built from a board on which moves had been played,
\* get_move on the board of the game, for any token of the players, does
\* not raise and returns one of the board's empty cells whenever the board
\* has at least two.
C22_GetMoveAfterLateBuild ==
    (last.op = "get_move" /\ ~BuiltFromEmptyBoard
     /\ Len(boards[1].empty_cells) >= 2) =>
        /\ last.status = "ok"
        /\ InList(last.retPos, boards[1].empty_cells)

\* ------------------------------------------------------------------------
\* SpecOpening: a 3x3 game of O against X with the search built from the
\* empty board, as tic-tac-toe.py builds it
\* ------------------------------------------------------------------------
\* get_move reads the entries of the table whose permutations begin with
\* the moves played (perm_subset).  The table of the empty 3x3 board has
\* 9! entries; a state holds the entries get_move can read in a game that
\* begins with one opening, O's first move, X's reply and O's second move.

\* the openings: three different cells among the first MaxOpeningCells
\* cells of the board
Openings ==
    {<<a, b, c>> : a, b, c \in {AllCells(DefaultRows)[k] : k \in 1..MaxOpeningCells}}
        \ {o \in [1..3 -> Positions(DefaultRows)] : o[1] = o[2] \/ o[1] = o[3] \/ o[2] = o[3]}

\* the permutations of the empty board's cells that begin with the moves of
\* opening, in the order move_permuations lists them
OpeningPermutations(opening) ==
    Let(permutations(SelectSeq(AllCells(DefaultRows),
                               LAMBDA cell : ~InList(cell, opening))), LAMBDA rest :
    [k \in 1..Len(rest) |-> opening \o rest[k]])

InitOpening ==
    /\ num_rows = DefaultRows
    /\ \E made \in {Board(EmptyStore, num_rows, num_rows)} :
       \E opening \in Openings :
       \E res \in {winners_over(made.st, 1, <<"O", "X">>, OpeningPermutations(opening))} :
           /\ heap = res.st.heap
           /\ boards = res.st.boards
           /\ move_permutations = res.move_permutations
           /\ winners = res.winners
    /\ origin = <<[op |-> "Board", arg |-> "", source |-> 0]>>
    /\ last = [NoCall EXCEPT !.op = "full_tree_search", !.self = 1]
    /\ tokens = <<"O", "X">>
    /\ NoTree
    /\ NoGame

\* the opening of the game, the first moves of every permutation held
Opening == SubSeq(move_permutations[1], 1, 3)

\* the players, taking turns, play the moves of the opening
PlayOpening ==
    /\ Len(boards[1].played_positions) < Len(Opening)
    /\ \E move \in {Opening[Len(boards[1].played_positions) + 1]} :
       \E res \in {play(Store, 1, move[1], move[2],
                        tokens[(Len(boards[1].played_positions) % Len(tokens)) + 1])} :
           /\ heap' = res.st.heap
           /\ boards' = res.st.boards
           /\ last' = [NoCall EXCEPT !.op = "play", !.self = 1, !.status = res.status]
    /\ UNCHANGED <<game, num_rows, origin, tokens, move_permutations, winners,
                   root, node, visited_nodes, nodes_made>>

\* the computer player's turn asks for a move once the opening is played
GetMoveAfterOpening ==
    /\ Len(boards[1].played_positions) = Len(Opening)
    /\ GetMove

SpecOpening == InitOpening /\ [][PlayOpening \/ GetMoveAfterOpening]_vars

\* the cells with which token would complete a line of g: the line's other
\* cells hold token and the cell is empty
Completing(g, token) ==
    {p \in Positions(Len(g)) :
        /\ g[p[1] + 1][p[2] + 1] = empty
        /\ \E k \in 1..(2 * Len(g) + 2) :
               /\ \E i \in 1..Len(g) : Lines(Len(g))[k][i] = <<p[1] + 1, p[2] + 1>>
               /\ \A i \in 1..Len(g) :
                      \/ Lines(Len(g))[k][i] = <<p[1] + 1, p[2] + 1>>
                      \/ g[Lines(Len(g))[k][i][1]][Lines(Len(g))[k][i][2]] = token}

\* C23: after O (0,0), X (0,1), O (1,0) in a 3x3 game of O against X, O
\* needs only the cell (2,0) to win and X, who is to move, has no cell that
\* wins at once; yet the moves of maximum mean score, from which get_move
\* picks X's move, include a cell other than (2,0).
C23_MeanSelectionCanMissTheBlock ==
    (boards[1].played_positions = << <<0, 0>>, <<0, 1>>, <<1, 0>> >>
     /\ boards[1].played_tokens = <<"O", "X", "O">>) =>
        /\ Completing(Grid(1), "O") = {<<2, 0>>}
        /\ Completing(Grid(1), "X") = {}
        /\ \A res \in {get_move(move_permutations, winners, boards[1], "X")} :
               /\ res.status = "ok"
               /\ res.moves \ Completing(Grid(1), "O") # {}

C23_Witness ==
    /\ last.op = "get_move" /\ last.status = "ok" /\ last.token = "X"
    /\ boards[1].played_tokens = <<"O", "X", "O">>
    /\ Completing(Grid(1), "O") # {}
    /\ Completing(Grid(1), "X") = {}
    /\ last.retPos \notin Completing(Grid(1), "O")

\* ------------------------------------------------------------------------
\* SpecGame: Game(board, players).play_game().  A player is "human" or a
\* ComputerPlayer whose algorithm is "sequential", "random_search" or
\* "tree_search" (partial(tree_search, token = key)); player i has tokens[i].
\* game.turn is the place of the for loop of play_round in players,
\* game.turns the number of calls of play_turn that have come back, game.pc
\* is "playing" inside the while loop of play_game, "over" after it and
\* "raised" when an exception has left play_game.
\* ------------------------------------------------------------------------
\* a choice of the first cell of the board, empty or not
sequential_first_cell(board) == {<<0, 0>>}

\* algorithms.sequential(board): the moves it can return, none for None
sequential(board) ==
    IF board.empty_cells = <<>> THEN {} ELSE {board.empty_cells[1]}

\* algorithms.random_search(board): the moves it can return, none for None
random_search(board) ==
    {board.empty_cells[k] : k \in 1..Len(board.empty_cells)}

\* Game.play_turn(player) on self.board, board 1: the ways it can end, each
\* with the store, self.exit_flag and the exception that left it.  A human
\* player's entry is a row and a column counted from 1; an entry for which
\* play raises IndexError is asked for again, so it ends no turn.
play_turn(st, perms, wins, exit_flag, player, token) ==
    IF player # "human"
    THEN Let(IF player = "sequential"
             THEN [status |-> "ok", moves |-> sequential(st.boards[1])]
             ELSE IF player = "random_search"
             THEN [status |-> "ok", moves |-> random_search(st.boards[1])]
             ELSE get_move(perms, wins, st.boards[1], token), LAMBDA found :
         IF found.status # "ok"
         THEN {[st |-> st, exit_flag |-> exit_flag, status |-> found.status,
                input |-> "move"]}
         ELSE IF found.moves \subseteq {NoMove}
         THEN {[st |-> st, exit_flag |-> exit_flag, status |-> "TypeError",
                input |-> "move"]}
         ELSE {Let(play(st, 1, move[1], move[2], token), LAMBDA res :
                   [st |-> res.st, exit_flag |-> exit_flag, status |-> res.status,
                    input |-> "move"]) : move \in found.moves})
    ELSE {[st |-> st, exit_flag |-> TRUE, status |-> "ok", input |-> "exit"],
          [st |-> st, exit_flag |-> exit_flag, status |-> "ok", input |-> "skip"]}
         \cup
         {out \in {Let(play(st, 1, entry[1] - 1, entry[2] - 1, token), LAMBDA res :
                       [st |-> res.st, exit_flag |-> exit_flag, status |-> res.status,
                        input |-> "move"]) :
                   entry \in (0..(st.boards[1].num_rows + 1))
                             \X (0..(st.boards[1].num_cols + 1))} :
              out.status # "IndexError"}

\* a round that goes on to its next player whatever the turn has brought
play_round_never_returns(st, exit_flag) == FALSE

\* Game.play_round, the test after play_turn: the round returns
play_round_returns(st, exit_flag) ==
    exit_flag \/ winner(st, 1) # None \/ full(st, 1)

\* a fresh 2x2 board and the search built from it, or a 3x3 board of O and
\* X with at most MaxGameCells empty cells, the last ones, and no search;
\* the players
InitGame ==
    /\ num_rows \in BoardSizes
    /\ tokens \in TokenLists
    /\ IF num_rows \in PairSizes
       THEN \E made \in {Board(EmptyStore, num_rows, num_rows)} :
            \E res \in {full_tree_search(made.st, 1, tokens)} :
                /\ heap = res.st.heap
                /\ boards = res.st.boards
                /\ move_permutations = res.move_permutations
                /\ winners = res.winners
       ELSE /\ tokens = <<"O", "X">>
            /\ \E g \in {x \in TreeRoots(num_rows) : Empties(x) <= MaxGameCells} :
               \E st \in {BoardWithGrid(num_rows, g)} :
                   heap = st.heap /\ boards = st.boards
            /\ move_permutations = <<>>
            /\ winners = <<>>
    /\ origin = <<[op |-> "Board", arg |-> "", source |-> 0]>>
    /\ last = NoCall
    /\ NoTree
    /\ \E players \in [1..Len(tokens) ->
                          {"human", "sequential", "random_search"}
                          \cup (IF move_permutations # <<>> THEN {"tree_search"} ELSE {})] :
           game = [pc |-> IF winner(Store, 1) = None /\ ~full(Store, 1)
                          THEN "playing" ELSE "over",
                   players |-> players, exit_flag |-> FALSE, round_num |-> 1,
                   turn |-> 1, turns |-> 0]

\* one pass of the for loop of play_round: play_turn(player), the test that
\* returns from the round, round_num += 1 after the last player, and the
\* test of the while loop of play_game when the round has come back
PlayGameTurn ==
    /\ game.pc = "playing"
    /\ \E out \in play_turn(Store, move_permutations, winners, game.exit_flag,
                            game.players[game.turn], tokens[game.turn]) :
       \E returns \in {out.status = "ok" /\ play_round_returns(out.st, out.exit_flag)} :
       \E goes_on \in {/\ winner(out.st, 1) = None
                       /\ ~out.exit_flag
                       /\ ~full(out.st, 1)} :
           /\ out.input = "skip" => game.round_num < MaxRounds
           /\ heap' = out.st.heap
           /\ boards' = out.st.boards
           /\ last' = [NoCall EXCEPT !.op = "play_turn", !.self = 1,
                                     !.token = tokens[game.turn],
                                     !.arg = out.input, !.status = out.status]
           /\ game' = [game EXCEPT
                  !.exit_flag = out.exit_flag,
                  !.turns = @ + 1,
                  !.round_num = IF out.status = "ok" /\ ~returns
                                   /\ game.turn = Len(game.players)
                                THEN @ + 1 ELSE @,
                  !.turn = IF out.status # "ok" THEN @
                           ELSE IF returns \/ game.turn = Len(game.players)
                           THEN (IF goes_on THEN 1 ELSE @)
                           ELSE @ + 1,
                  !.pc = IF out.status # "ok" THEN "raised"
                         ELSE IF (returns \/ game.turn = Len(game.players)) /\ ~goes_on
                         THEN "over" ELSE "playing"]
    /\ UNCHANGED <<num_rows, origin, tokens, move_permutations, winners,
                   root, node, visited_nodes, nodes_made>>

SpecGame == InitGame /\ [][PlayGameTurn]_vars

\* C25: once the board has a winner, is full, or a player has exited,
\* play_game is no longer inside its loop, and no step plays a turn: the
\* board, the count of turns and the place in the round stay as they are.
C25_NoTurnAfterTheEnd ==
    /\ [](game.exit_flag \/ winner(Store, 1) # None \/ full(Store, 1)
             => game.pc # "playing")
    /\ [][(game.exit_flag \/ winner(Store, 1) # None \/ full(Store, 1))
             => (game' = game /\ Store' = Store)]_vars

C25_Witness ==
    /\ game.pc = "over"
    /\ winner(Store, 1) # None
    /\ game.turns >= 2
    /\ game.turn < Len(game.players)

\* play_game calls play_round, and play_round its players, until the loop ends
SpecGameFair == SpecGame /\ WF_vars(PlayGameTurn)

\* C26: in a game whose players are all computer players, play_game comes
\* to its end; every turn raises nothing and plays exactly one cell, which
\* was empty: it leaves the list of empty cells, joins the played positions
\* and is the only cell of the grid that changes; no turn begins on a full
\* board; and there are at most num_rows * num_rows turns.
C26_ComputerGamesTerminate ==
    /\ <>((\E i \in 1..Len(game.players) : game.players[i] = "human")
          \/ game.pc = "over")
    /\ [][(\A i \in 1..Len(game.players) : game.players[i] # "human") =>
             /\ last'.status = "ok"
             /\ game'.turns = game.turns + 1
             /\ \E k \in 1..Len(boards[1].empty_cells) :
                \A cell \in {boards[1].empty_cells[k]} :
                    /\ boards'[1].empty_cells = Remove(boards[1].empty_cells, cell)
                    /\ boards'[1].played_positions =
                           Append(boards[1].played_positions, cell)
                    /\ boards'[1].played_tokens =
                           Append(boards[1].played_tokens, tokens[game.turn])
                    /\ \A p \in Positions(num_rows) :
                           ViewIn(Store', 1).board[p[1] + 1][p[2] + 1] =
                               IF p = cell THEN tokens[game.turn]
                               ELSE ViewIn(Store, 1).board[p[1] + 1][p[2] + 1]]_vars
    /\ []((\A i \in 1..Len(game.players) : game.players[i] # "human") =>
             /\ game.pc = "playing" => ~full(Store, 1)
             /\ game.pc # "raised"
             /\ game.turns <= num_rows * num_rows)

C26_Witness ==
    /\ \A i \in 1..Len(game.players) : game.players[i] # "human"
    /\ \E i \in 1..Len(game.players) : game.players[i] = "tree_search"
    /\ game.pc = "over"
    /\ game.turns >= 3
====
